---- MODULE Spec2Model ----
(***************************************************************************)
(* Model of Grover/GroverQLearner.ipynb: class GroverQLearner, the agent   *)
(* state built by __init__ and the training loop train().                  *)
(*                                                                         *)
(* Reading of the source.  Several expressions of the notebook cannot be   *)
(* evaluated as they are spelled; they are read as the element access or   *)
(* call they stand for, and nothing else about them is changed:            *)
(*   self.grover_length(s, a)            -> self.grover_lengths[s, a]      *)
(*   self.action_circuits(s)             -> self.action_circuits[s]        *)
(*   self.grover_operators(a)            -> self.grover_operators[a]       *)
(*   self.max_grover_length_reached(s)   -> self.max_grover_length_reached[s] *)
(*   self.Q_value[...]                   -> self.Q_values[...]             *)
(*   for _ in length                     -> for _ in range(length)         *)
(*   xs.append[v]                        -> xs.append(v)                   *)
(* The logic of every statement (conditions, operands, order, the tables   *)
(* read and written) is modelled as written.                               *)
(*                                                                         *)
(* Numbers.  Q values are floats in the source.  The model keeps them as   *)
(* integers scaled by QScale; the hyperparameters are drawn from dyadic    *)
(* rationals (alpha in {0, 1/2}, gamma = 1) and rewards are integers, so   *)
(* every value the update produces is a multiple of 1/QScale and both the  *)
(* float arithmetic and the scaled arithmetic are exact.                   *)
(***************************************************************************)
EXTENDS Integers, Sequences, FiniteSets, TLC

(* ---------------------------------------------------------------------- *)
(* Bounds of the model                                                     *)
(* ---------------------------------------------------------------------- *)
\* hyperparameters['max_epochs'] of the runs explored
MaxEpochs == 2
\* hyperparameters['max_steps'] of the runs explored
MaxSteps == 2

\* the runs explored: env.observation_space.n and env.action_space.n with
\* hyperparameters['max_epochs']; the environments with three states or three
\* actions are run for one episode fewer
Runs == { [states |-> 2, actions |-> 2, max_epochs |-> MaxEpochs],
          [states |-> 3, actions |-> 2, max_epochs |-> MaxEpochs - 1],
          [states |-> 2, actions |-> 3, max_epochs |-> MaxEpochs - 1] }
\* env.action_space.n of the environments explored
ActionDims == {2, 3}
\* rewards the environment hands back from env.step
BaseRewards == {0, 1}
\* the state env.reset() hands back (FrozenLake starts at 0)
ResetStates == {0}

\* Q values are stored as multiples of 1/QScale: one halving per update at most
QScale == 2 ^ (MaxEpochs * MaxSteps)

\* a rational is a pair <<numerator, denominator>>
Num(q) == q[1]
Den(q) == q[2]

\* the hyperparameter dictionaries explored: k as in the source, alpha 0 or 1/2
Hyperparameters(epochs) ==
  { [k |-> <<1, 10>>, alpha |-> al, gamma |-> <<1, 1>>,
     max_epochs |-> epochs, max_steps |-> MaxSteps] :
       al \in { <<0, 1>>, <<1, 2>> } }

(* ---------------------------------------------------------------------- *)
(* Arithmetic helpers                                                      *)
(* ---------------------------------------------------------------------- *)
Min(a, b) == IF a <= b THEN a ELSE b
Max(a, b) == IF a >= b THEN a ELSE b

\* Python int(x / y) for y > 0: truncation toward zero
TruncDiv(x, y) == IF x >= 0 THEN x \div y ELSE -((-x) \div y)

\* ceil(np.log2(a)) for a >= 1
RECURSIVE CeilLog2(_)
CeilLog2(a) == IF a <= 1 THEN 0 ELSE 1 + CeilLog2((a + 1) \div 2)

\* the unit of the fixed-point values below: one millionth
Micro == 10 ^ 6

\* np.pi / (4 * np.arcsin(1. / np.sqrt(2 ** n))) - 0.5 evaluated in double
\* precision, in millionths rounded down: 0.0, 0.5000000000000002,
\* 0.9999999999999998, 1.6734079041462842, 2.6082688394304085,
\* 3.919534679768386 for n = 0 .. 5.  For n >= 1 the double lies strictly
\* above the value listed, so none of them is a tie of round().
IterationRatioMicro(n) ==
  CASE n = 0 -> 0
    [] n = 1 -> 500000
    [] n = 2 -> 999999
    [] n = 3 -> 1673407
    [] n = 4 -> 2608268
    [] n = 5 -> 3919534

\* MaxGroverLengthOf with int() applied without round(): truncation
MutMaxGroverLengthOf(n) == IterationRatioMicro(n) \div Micro

\* int(round(np.pi / (4 * np.arcsin(1. / np.sqrt(2 ** n))) - 0.5)): the nearest
\* integer
MaxGroverLengthOf(n) == (IterationRatioMicro(n) + Micro \div 2) \div Micro

(* ---------------------------------------------------------------------- *)
(* State                                                                   *)
(* ---------------------------------------------------------------------- *)
VARIABLES
  state_dimension,            \* self.state_dimension
  action_dimension,           \* self.action_dimension
  hyperparameters,            \* self.hyperparameters
  state,                      \* self.state
  action,                     \* self.action
  Q_values,                   \* self.Q_values, scaled by QScale
  grover_lengths,             \* self.grover_lengths
  max_grover_length_reached,  \* self.max_grover_length_reached
  grover_operators,           \* self.grover_operators: per action, the basis state
                              \* its Grover operator amplifies
  action_circuits,            \* self.action_circuits: per state, the Grover operators
                              \* appended after the H layer
  executions,                 \* history: number of execute() calls made
  env_steps,                  \* history: number of env.step() calls made
  in_flight,                  \* backend jobs submitted and not yet returned
  request,                    \* the last job handed to execute()
  error,                      \* the exception that ended train(), or "none"
  pc,                         \* position of train()
  epoch,                      \* train(): epoch
  step,                       \* train(): step
  step_stop,                  \* train(): stop of the range(optimal_steps) being iterated
  optimal_steps,              \* train(): optimal_steps
  target_reached,             \* train(): target_reached
  trajectory,                 \* train(): trajectory
  new_state,                  \* train(): new_state
  reward,                     \* train(): reward
  done,                       \* train(): done
  steps_in_all_epochs,        \* train(): steps_in_all_epochs
  target_reached_in_all_epochs, \* train(): target_reached_in_all_epochs
  trajectories_in_all_epochs, \* train(): trajectories_in_all_epochs
  step_entry                  \* history: what the step just completed started from

agent == <<state_dimension, action_dimension, hyperparameters, state, action,
           Q_values, grover_lengths, max_grover_length_reached, grover_operators,
           action_circuits>>
io == <<executions, env_steps, in_flight, request, error>>
locals == <<pc, epoch, step, step_stop, optimal_steps, target_reached, trajectory,
            new_state, reward, done>>
results == <<steps_in_all_epochs, target_reached_in_all_epochs,
             trajectories_in_all_epochs>>
vars == <<agent, locals, results, step_entry, io>>

States == 0 .. (state_dimension - 1)
Actions == 0 .. (action_dimension - 1)

\* self.action_qregister_size
action_qregister_size == CeilLog2(action_dimension)
\* self.max_grover_length
max_grover_length == MaxGroverLengthOf(action_qregister_size)
\* the outcomes a measurement of the action register can give
Outcomes == 0 .. (2 ^ action_qregister_size - 1)

(* ---------------------------------------------------------------------- *)
(* __init__                                                                *)
(* ---------------------------------------------------------------------- *)
Init ==
  /\ \E run \in Runs :
       /\ state_dimension = run.states
       /\ action_dimension = run.actions
       /\ hyperparameters \in Hyperparameters(run.max_epochs)
  /\ action_dimension \in ActionDims
  /\ state \in ResetStates
  /\ action = 0
  /\ Q_values = [s \in 0 .. (state_dimension - 1) |->
                   [a \in 0 .. (action_dimension - 1) |-> 0]]
  /\ grover_lengths = [s \in 0 .. (state_dimension - 1) |->
                         [a \in 0 .. (action_dimension - 1) |-> 0]]
  /\ max_grover_length_reached = [s \in 0 .. (state_dimension - 1) |->
                                    [a \in 0 .. (action_dimension - 1) |-> FALSE]]
  /\ grover_operators = [a \in 0 .. (action_dimension - 1) |-> a]
  /\ action_circuits = [s \in 0 .. (state_dimension - 1) |-> << >>]
  /\ executions = 0
  /\ env_steps = 0
  /\ in_flight = 0
  /\ request = [circuit |-> << >>, measured |-> FALSE, shots |-> 0]
  /\ error = "none"
  /\ pc = "constructed"
  /\ epoch = 0
  /\ step = 0
  /\ step_stop = 0
  /\ optimal_steps = 0
  /\ target_reached = FALSE
  /\ trajectory = << >>
  /\ new_state = 0
  /\ reward = 0
  /\ done = FALSE
  /\ steps_in_all_epochs = << >>
  /\ target_reached_in_all_epochs = << >>
  /\ trajectories_in_all_epochs = << >>
  /\ step_entry = [taken |-> FALSE, state |-> 0, reached |-> FALSE, row |-> FALSE,
                   circuit |-> << >>, env_reward |-> 0, env_done |-> FALSE]

(* ---------------------------------------------------------------------- *)
(* Pure parts of the step                                                  *)
(* ---------------------------------------------------------------------- *)
\* n copies of x
RECURSIVE Repeat(_, _)
Repeat(x, n) == IF n <= 0 THEN << >> ELSE <<x>> \o Repeat(x, n - 1)

\* np.max(Q[s])
MaxQ(Q, s) == CHOOSE m \in {Q[s][a] : a \in DOMAIN Q[s]} :
                \A a \in DOMAIN Q[s] : Q[s][a] <= m

\* ShapeReward with optimal_steps set to the step index instead of step + 1
MutShapeReward(st, ns, r, d, stp, opt, tr) ==
  LET r1 == IF ns = st THEN r - 10 ELSE r
      d1 == IF ns = st THEN TRUE ELSE d
      goal == (ns = state_dimension - 1)
  IN  [reward         |-> IF goal THEN r1 + 99 ELSE IF ~d1 THEN r1 - 1 ELSE r1,
       done           |-> d1,
       optimal_steps  |-> IF goal THEN stp ELSE opt,
       target_reached |-> IF goal THEN TRUE ELSE tr]

\* train(), reward shaping: the locals after the if / if / elif block
ShapeReward(st, ns, r, d, stp, opt, tr) ==
  LET r1 == IF ns = st THEN r - 10 ELSE r
      d1 == IF ns = st THEN TRUE ELSE d
      goal == (ns = state_dimension - 1)
  IN  [reward         |-> IF goal THEN r1 + 99 ELSE IF ~d1 THEN r1 - 1 ELSE r1,
       done           |-> d1,
       optimal_steps  |-> IF goal THEN stp + 1 ELSE opt,
       target_reached |-> IF goal THEN TRUE ELSE tr]

\* UpdateQValues with alpha applied to the old value only:
\* Q <- (1 - alpha) * Q + (reward + gamma * max Q[new_state])
MutUpdateQValues(Q, s, a, r, ns, hp) ==
  LET al == hp.alpha
      ga == hp.gamma
  IN  [Q EXCEPT ![s][a] =
         ((Den(al) - Num(al)) * Q[s][a]) \div Den(al)
         + (r * QScale * Den(ga) + Num(ga) * MaxQ(Q, ns)) \div Den(ga)]

\* _update_Q_values: r is an integer reward, Q is scaled by QScale
UpdateQValues(Q, s, a, r, ns, hp) ==
  LET al == hp.alpha
      ga == hp.gamma
      target == r * QScale * Den(ga) + Num(ga) * MaxQ(Q, ns) - Q[s][a] * Den(ga)
  IN  [Q EXCEPT ![s][a] = Q[s][a] + (Num(al) * target) \div (Den(al) * Den(ga))]

\* _get_grover_length: int(k * (reward + np.max(Q[new_state])))
GetGroverLength(Q, r, ns, hp) ==
  TruncDiv(Num(hp.k) * (r * QScale + MaxQ(Q, ns)), Den(hp.k) * QScale)

\* _run_grover_iterations: max_grover_length_reached[state].any()
RowReached(flags, s) == \E a \in DOMAIN flags[s] : flags[s][a]

\* _run_grover_iterations: length
IterationLength(gl, s, a) == Min(gl[s][a], max_grover_length)

\* _run_grover_iterations: how many operators the for loop appends
AppendedCount(gl, flags, s, a) ==
  IF ~RowReached(flags, s) THEN Max(IterationLength(gl, s, a), 0) ELSE 0

\* _run_grover_iterations: the circuit store after the call
AppendOperators(circ, gl, flags, s, a) ==
  [circ EXCEPT ![s] =
     circ[s] \o Repeat(grover_operators[a], AppendedCount(gl, flags, s, a))]

\* UpdateReached storing the outcome of the test instead of setting the flag
MutUpdateReached(gl, flags, s, a) ==
  [flags EXCEPT ![s][a] =
     (IterationLength(gl, s, a) = max_grover_length /\ ~RowReached(flags, s))]

\* _run_grover_iterations: the flag table after the call
UpdateReached(gl, flags, s, a) ==
  IF IterationLength(gl, s, a) = max_grover_length /\ ~RowReached(flags, s)
  THEN [flags EXCEPT ![s][a] = TRUE]
  ELSE flags

(* ---------------------------------------------------------------------- *)
(* train()                                                                 *)
(* ---------------------------------------------------------------------- *)
\* lines 166-175: the locals before the epoch loop, and the loop head
TrainBegin ==
  /\ pc = "constructed"
  /\ optimal_steps' = hyperparameters.max_steps
  /\ target_reached' = FALSE
  /\ trajectory' = << >>
  /\ steps_in_all_epochs' = << >>
  /\ target_reached_in_all_epochs' = << >>
  /\ trajectories_in_all_epochs' = << >>
  /\ epoch' = 0
  /\ pc' = IF hyperparameters.max_epochs > 0 THEN "epoch_start" ELSE "done"
  /\ UNCHANGED <<agent, step, step_stop, new_state, reward, done, step_entry, io>>

\* EpochStart that also clears the saturation flags with the episode
MutEpochStart ==
  /\ pc = "epoch_start"
  /\ state' \in ResetStates
  /\ target_reached' = FALSE
  /\ trajectory' = <<state'>>
  /\ step_stop' = optimal_steps
  /\ step' = 0
  /\ max_grover_length_reached' =
       [s \in States |-> [a \in Actions |-> FALSE]]
  /\ pc' = IF optimal_steps > 0 THEN "take_action" ELSE "epoch_end"
  /\ UNCHANGED <<state_dimension, action_dimension, hyperparameters, action,
                 Q_values, grover_lengths, grover_operators,
                 action_circuits, epoch, optimal_steps, new_state, reward, done,
                 results, step_entry, io>>

\* lines 176-182: reset of the episode and the head of the step loop
EpochStart ==
  /\ pc = "epoch_start"
  /\ state' \in ResetStates
  /\ target_reached' = FALSE
  /\ trajectory' = <<state'>>
  /\ step_stop' = optimal_steps
  /\ step' = 0
  /\ pc' = IF optimal_steps > 0 THEN "take_action" ELSE "epoch_end"
  /\ UNCHANGED <<state_dimension, action_dimension, hyperparameters, action,
                 Q_values, grover_lengths, max_grover_length_reached,
                 grover_operators, action_circuits, epoch, optimal_steps, new_state,
                 reward, done, results, step_entry, io>>

\* TakeAction that measures the stored circuit itself instead of a copy: the
\* measurement (written -1) becomes part of action_circuits[state]
MutTakeActionInPlace ==
  /\ pc = "take_action"
  /\ action_circuits' = [action_circuits EXCEPT ![state] = Append(@, -1)]
  /\ request' = [circuit |-> action_circuits[state], measured |-> TRUE, shots |-> 1]
  /\ executions' = executions + 1
  /\ in_flight' = in_flight + 1
  /\ pc' = "await_result"
  /\ UNCHANGED <<state_dimension, action_dimension, hyperparameters, state, action,
                 Q_values, grover_lengths, max_grover_length_reached,
                 grover_operators, epoch, step, step_stop, optimal_steps,
                 target_reached, trajectory, new_state, reward, done, results,
                 step_entry, env_steps, error>>

\* TakeAction that leaves the shot count to the default of execute()
MutTakeAction ==
  /\ pc = "take_action"
  /\ request' = [circuit |-> action_circuits[state], measured |-> TRUE,
                 shots |-> 1024]
  /\ executions' = executions + 1
  /\ in_flight' = in_flight + 1
  /\ pc' = "await_result"
  /\ UNCHANGED <<agent, epoch, step, step_stop, optimal_steps, target_reached,
                 trajectory, new_state, reward, done, results, step_entry,
                 env_steps, error>>

\* line 184, _take_action lines 122-125: measure_all() on a copy of
\* action_circuits[state], and the copy handed to execute() with shots = 1
TakeAction ==
  /\ pc = "take_action"
  /\ request' = [circuit |-> action_circuits[state], measured |-> TRUE, shots |-> 1]
  /\ executions' = executions + 1
  /\ in_flight' = in_flight + 1
  /\ pc' = "await_result"
  /\ UNCHANGED <<agent, epoch, step, step_stop, optimal_steps, target_reached,
                 trajectory, new_state, reward, done, results, step_entry,
                 env_steps, error>>

\* _take_action lines 126-129: job.result() returns one outcome, decoded by
\* int(key, 2) and stored in self.action
TakeActionResult ==
  /\ pc = "await_result"
  /\ action' \in Outcomes
  /\ in_flight' = in_flight - 1
  /\ pc' = "env_step"
  /\ UNCHANGED <<state_dimension, action_dimension, hyperparameters, state,
                 Q_values, grover_lengths, max_grover_length_reached,
                 grover_operators, action_circuits, epoch, step, step_stop,
                 optimal_steps, target_reached, trajectory, new_state, reward, done,
                 results, step_entry, executions, env_steps, request, error>>

\* BackendFails with the exception swallowed: the step goes on with the action
\* left in self.action
MutBackendFails ==
  /\ pc = "await_result"
  /\ in_flight' = in_flight - 1
  /\ error' = "BackendError"
  /\ pc' = "env_step"
  /\ UNCHANGED <<agent, epoch, step, step_stop, optimal_steps, target_reached,
                 trajectory, new_state, reward, done, results, step_entry,
                 executions, env_steps, request>>

\* _take_action lines 125-126: execute() or job.result() raises; nothing in
\* _take_action or train() catches it
BackendFails ==
  /\ pc = "await_result"
  /\ in_flight' = in_flight - 1
  /\ error' = "BackendError"
  /\ pc' = "error"
  /\ UNCHANGED <<agent, epoch, step, step_stop, optimal_steps, target_reached,
                 trajectory, new_state, reward, done, results, step_entry,
                 executions, env_steps, request>>

\* line 185: new_state, reward, _, done, _ = self.env.step(self.action)
EnvStep ==
  /\ pc = "env_step"
  /\ new_state' \in States
  /\ reward' \in BaseRewards
  /\ done' \in BOOLEAN
  /\ env_steps' = env_steps + 1
  /\ pc' = "learn"
  /\ UNCHANGED <<agent, epoch, step, step_stop, optimal_steps, target_reached,
                 trajectory, results, step_entry, executions, in_flight, request,
                 error>>

\* Learn with lines 195 and 196 swapped: the Grover length is computed from the
\* value table as it was before this step's update
MutLearn ==
  /\ pc = "learn"
  /\ action \in Actions
  /\ LET sh == ShapeReward(state, new_state, reward, done, step, optimal_steps,
                           target_reached)
         Q1 == UpdateQValues(Q_values, state, action, sh.reward, new_state,
                             hyperparameters)
         gl1 == [grover_lengths EXCEPT ![state][action] =
                   GetGroverLength(Q_values, sh.reward, new_state, hyperparameters)]
     IN  /\ reward' = sh.reward
         /\ done' = sh.done
         /\ optimal_steps' = sh.optimal_steps
         /\ target_reached' = sh.target_reached
         /\ Q_values' = Q1
         /\ grover_lengths' = gl1
         /\ action_circuits' = AppendOperators(action_circuits, gl1,
                                  max_grover_length_reached, state, action)
         /\ max_grover_length_reached' =
              UpdateReached(gl1, max_grover_length_reached, state, action)
         /\ trajectory' = Append(trajectory, new_state)
         /\ IF sh.done
            THEN /\ pc' = "epoch_end"
                 /\ UNCHANGED <<state, step>>
            ELSE /\ state' = new_state
                 /\ IF step + 1 < step_stop
                    THEN step' = step + 1 /\ pc' = "take_action"
                    ELSE step' = step /\ pc' = "epoch_end"
  /\ step_entry' = [taken |-> TRUE, state |-> state,
                    reached |-> max_grover_length_reached[state][action],
                    row |-> RowReached(max_grover_length_reached, state),
                    circuit |-> action_circuits[state],
                    env_reward |-> reward, env_done |-> done]
  /\ UNCHANGED <<state_dimension, action_dimension, hyperparameters, action,
                 grover_operators, epoch, step_stop, new_state, results, io>>

\* lines 186-201: shaping, Q update, Grover length, Grover iterations,
\* trajectory, break or next step
Learn ==
  /\ pc = "learn"
  /\ action \in Actions
  /\ LET sh == ShapeReward(state, new_state, reward, done, step, optimal_steps,
                           target_reached)
         Q1 == UpdateQValues(Q_values, state, action, sh.reward, new_state,
                             hyperparameters)
         gl1 == [grover_lengths EXCEPT ![state][action] =
                   GetGroverLength(Q1, sh.reward, new_state, hyperparameters)]
     IN  /\ reward' = sh.reward
         /\ done' = sh.done
         /\ optimal_steps' = sh.optimal_steps
         /\ target_reached' = sh.target_reached
         /\ Q_values' = Q1
         /\ grover_lengths' = gl1
         /\ action_circuits' = AppendOperators(action_circuits, gl1,
                                  max_grover_length_reached, state, action)
         /\ max_grover_length_reached' =
              UpdateReached(gl1, max_grover_length_reached, state, action)
         /\ trajectory' = Append(trajectory, new_state)
         /\ IF sh.done
            THEN /\ pc' = "epoch_end"
                 /\ UNCHANGED <<state, step>>
            ELSE /\ state' = new_state
                 /\ IF step + 1 < step_stop
                    THEN step' = step + 1 /\ pc' = "take_action"
                    ELSE step' = step /\ pc' = "epoch_end"
  /\ step_entry' = [taken |-> TRUE, state |-> state,
                    reached |-> max_grover_length_reached[state][action],
                    row |-> RowReached(max_grover_length_reached, state),
                    circuit |-> action_circuits[state],
                    env_reward |-> reward, env_done |-> done]
  /\ UNCHANGED <<state_dimension, action_dimension, hyperparameters, action,
                 grover_operators, epoch, step_stop, new_state, results, io>>

\* lines 186-195 when self.action is no index of the tables: the shaping of the
\* locals runs, then self.Q_values[self.state, self.action] in _update_Q_values
\* (line 159) raises IndexError, which nothing catches
LearnIndexError ==
  /\ pc = "learn"
  /\ action \notin Actions
  /\ LET sh == ShapeReward(state, new_state, reward, done, step, optimal_steps,
                           target_reached)
     IN  /\ reward' = sh.reward
         /\ done' = sh.done
         /\ optimal_steps' = sh.optimal_steps
         /\ target_reached' = sh.target_reached
  /\ error' = "IndexError"
  /\ pc' = "error"
  /\ UNCHANGED <<agent, epoch, step, step_stop, trajectory, new_state, results,
                 step_entry, executions, env_steps, in_flight, request>>

\* EpochEnd that records the trajectory only when the target was reached
MutEpochEnd ==
  /\ pc = "epoch_end"
  /\ steps_in_all_epochs' = Append(steps_in_all_epochs, optimal_steps)
  /\ target_reached_in_all_epochs' =
       Append(target_reached_in_all_epochs, target_reached)
  /\ trajectories_in_all_epochs' =
       IF target_reached THEN Append(trajectories_in_all_epochs, trajectory)
       ELSE trajectories_in_all_epochs
  /\ epoch' = epoch + 1
  /\ pc' = IF epoch + 1 < hyperparameters.max_epochs THEN "epoch_start" ELSE "done"
  /\ UNCHANGED <<agent, step, step_stop, optimal_steps, target_reached, trajectory,
                 new_state, reward, done, step_entry, io>>

\* lines 203-205 and the head of the epoch loop; epoch counts the episodes recorded
EpochEnd ==
  /\ pc = "epoch_end"
  /\ steps_in_all_epochs' = Append(steps_in_all_epochs, optimal_steps)
  /\ target_reached_in_all_epochs' =
       Append(target_reached_in_all_epochs, target_reached)
  /\ trajectories_in_all_epochs' = Append(trajectories_in_all_epochs, trajectory)
  /\ epoch' = epoch + 1
  /\ pc' = IF epoch + 1 < hyperparameters.max_epochs THEN "epoch_start" ELSE "done"
  /\ UNCHANGED <<agent, step, step_stop, optimal_steps, target_reached, trajectory,
                 new_state, reward, done, step_entry, io>>

Next ==
  \/ TrainBegin
  \/ EpochStart
  \/ TakeAction
  \/ TakeActionResult
  \/ BackendFails
  \/ EnvStep
  \/ Learn
  \/ LearnIndexError
  \/ EpochEnd

Spec == Init /\ [][Next]_vars

(* ---------------------------------------------------------------------- *)
(* Properties                                                              *)
(* ---------------------------------------------------------------------- *)
\* a step (lines 184-201) has just been completed
AfterStep ==
  /\ step_entry.taken
  /\ \/ pc = "epoch_end"
     \/ pc = "take_action" /\ step > 0

\* the raw length clamped to [0, max_grover_length]
Clamp(raw) == Max(0, Min(raw, max_grover_length))

\* the goal index, by convention the last state
Goal == state_dimension - 1

\* every number stored in Q_values is exact at the scale of the model
ScaleIsExact ==
  pc = "learn" =>
    LET sh == ShapeReward(state, new_state, reward, done, step, optimal_steps,
                          target_reached)
        ga == hyperparameters.gamma
        al == hyperparameters.alpha
        t  == sh.reward * QScale * Den(ga) + Num(ga) * MaxQ(Q_values, new_state)
                - Q_values[state][action] * Den(ga)
    IN  (Num(al) * t) % (Den(al) * Den(ga)) = 0

\* C1: a saturation flag that is true stays true in every later state of the
\* run, and a step taken from state s with action a whose flag is already true
\* appends nothing to action_circuits[s].
C1_SaturationMonotone ==
  [][\A s \in States, a \in Actions :
       max_grover_length_reached[s][a] =>
         /\ max_grover_length_reached'[s][a]
         /\ (pc = "learn" /\ state = s /\ action = a) =>
               action_circuits'[s] = action_circuits[s]]_vars

\* C1 witness: a step was taken from a pair that was already saturated, its raw
\* length asked for at least one operator, and the circuit is what it was
C1_Witness ==
  /\ AfterStep
  /\ step_entry.reached
  /\ grover_lengths[step_entry.state][action] >= 1
  /\ action_circuits[step_entry.state] = step_entry.circuit
  /\ Len(step_entry.circuit) >= 1
  /\ epoch >= 1

\* C2: every stored Grover length is a non-negative integer of at most
\* max_grover_length, in every reachable state.
C2_LengthBounded ==
  \A s \in States, a \in Actions :
    grover_lengths[s][a] \in 0 .. max_grover_length

\* C3: a step from state s with action a appends nothing when the flag of the
\* pair (s, a) is true, and otherwise appends exactly the clamped raw length
\* int(k * (reward + max Q[new_state])) copies of the operator of a; flags of
\* other pairs play no part.
C3_AppendByPairFlag ==
  [][(pc = "learn" /\ action \in Actions) =>
       LET raw == GetGroverLength(Q_values', reward', new_state, hyperparameters)
           n   == IF max_grover_length_reached[state][action] THEN 0 ELSE Clamp(raw)
       IN  action_circuits'[state] = action_circuits[state] \o Repeat(action, n)]_vars

\* C4: a step whose new_state equals the state it was taken from (the goal index
\* included) uses the reward of the environment minus 10 and ends the episode.
C4_NoOpStep ==
  [][(pc = "learn" /\ new_state = state) =>
       /\ reward' = reward - 10
       /\ done'
       /\ pc' = "epoch_end"]_vars

\* C5: a step that moves into the goal index from another state uses the reward
\* of the environment plus 99, sets target_reached and sets optimal_steps to the
\* zero-based step index plus 1.
C5_GoalStep ==
  [][(pc = "learn" /\ new_state = Goal /\ new_state # state) =>
       /\ reward' = reward + 99
       /\ target_reached'
       /\ optimal_steps' = step + 1]_vars

\* C5 witness: the second step of an episode has moved from a non-goal state
\* into the goal with the shaped reward in place
C5_Witness ==
  /\ AfterStep
  /\ step_entry.env_reward = 1
  /\ new_state = Goal
  /\ step_entry.state # Goal
  /\ reward = step_entry.env_reward + 99
  /\ target_reached
  /\ optimal_steps = 2

\* C6: an episode ends only after a step that set done or after max_steps steps,
\* and never takes more than max_steps steps.
C6_EpisodeLength ==
  pc = "epoch_end" =>
    LET n == Len(trajectory) - 1
    IN  /\ n <= hyperparameters.max_steps
        /\ n < hyperparameters.max_steps => done

\* C7: for every recorded episode the goal flag is true exactly when a step of
\* the episode had new_state = goal, the step count is the index + 1 of a
\* goal-reaching step of that episode when there is one, and max_steps otherwise.
C7_RecordedSteps ==
  \A i \in 1 .. Len(steps_in_all_epochs) :
    LET tr    == trajectories_in_all_epochs[i]
        goals == {j \in 2 .. Len(tr) : tr[j] = Goal}
    IN  /\ target_reached_in_all_epochs[i] <=> (goals # {})
        /\ goals # {} => (steps_in_all_epochs[i] + 1) \in goals
        /\ goals = {} => steps_in_all_epochs[i] = hyperparameters.max_steps

\* C8: the three sequences grow together, one entry per finished episode in the
\* order of the episodes, entries are never changed once recorded, train()
\* returns them with max_epochs entries each, and every episode has taken at
\* least one step (hence at least one value-table update).
C8_ThreeSequences ==
  /\ [](/\ Len(steps_in_all_epochs) = epoch
        /\ Len(target_reached_in_all_epochs) = epoch
        /\ Len(trajectories_in_all_epochs) = epoch
        /\ \A i \in 1 .. Len(trajectories_in_all_epochs) :
             Len(trajectories_in_all_epochs[i]) >= 2
        /\ pc = "done" => epoch = hyperparameters.max_epochs)
  /\ [][pc = "epoch_end" =>
          /\ steps_in_all_epochs' = Append(steps_in_all_epochs, optimal_steps)
          /\ target_reached_in_all_epochs' =
               Append(target_reached_in_all_epochs, target_reached)
          /\ trajectories_in_all_epochs' =
               Append(trajectories_in_all_epochs, trajectory)]_vars
  /\ [][pc # "epoch_end" /\ pc # "constructed" => UNCHANGED results]_vars

\* C8 witness: train() has returned after max_epochs episodes of which one
\* reached the target and one did not
C8_Witness ==
  /\ pc = "done"
  /\ Len(trajectories_in_all_epochs) = hyperparameters.max_epochs
  /\ \E i, j \in 1 .. Len(target_reached_in_all_epochs) :
       target_reached_in_all_epochs[i] /\ ~target_reached_in_all_epochs[j]

\* C9: between the last step of an episode and the first step of the next one
\* the value table, the length table, the saturation flags and every circuit
\* keep their contents.
C9_TablesSurviveEpisodes ==
  [][(pc = "epoch_end" \/ pc = "epoch_start") =>
       (UNCHANGED <<Q_values, grover_lengths, max_grover_length_reached,
                    action_circuits>>)]_vars

\* C9 witness: the first step of a later episode starts with a learned value, a
\* stored length, a set flag and an extended circuit from an earlier episode
C9_Witness ==
  /\ pc = "take_action"
  /\ step = 0
  /\ epoch >= 1
  /\ \E s \in States, a \in Actions : Q_values[s][a] # 0
  /\ \E s \in States, a \in Actions : grover_lengths[s][a] # 0
  /\ \E s \in States, a \in Actions : max_grover_length_reached[s][a]
  /\ \E s \in States : action_circuits[s] # << >>

\* C10: with alpha = 0 every entry of the value table is 0 in every state of
\* the run.
C10_AlphaZeroKeepsQ ==
  Num(hyperparameters.alpha) = 0 =>
    \A s \in States, a \in Actions : Q_values[s][a] = 0

\* C10 witness: with alpha = 0 a step with a non-zero shaped reward has been
\* taken in a later episode
C10_Witness ==
  /\ Num(hyperparameters.alpha) = 0
  /\ AfterStep
  /\ reward # 0
  /\ epoch >= 1

\* the action counts for which the construction formulas are evaluated
ActionCounts == 1 .. 32

\* pi / (4 * arcsin(1 / sqrt(2^n))) - 0.5 as a real number, in millionths rounded
\* down: exactly 0, 1/2 and 1 for n = 0, 1, 2
ExactRatioMicro(n) ==
  CASE n = 0 -> 0
    [] n = 1 -> 500000
    [] n = 2 -> 1000000
    [] n = 3 -> 1673407
    [] n = 4 -> 2608268
    [] n = 5 -> 3919534

\* C14 (as stated): max_grover_length of the agent is
\* floor(pi / (4 * arcsin(1 / sqrt(2^n))) - 0.5) for its register width n.
C14_FloorFormula ==
  max_grover_length = ExactRatioMicro(action_qregister_size) \div Micro

\* the construction formulas over every action count: n = ceil(log2(A)) is the
\* least width with 2^n >= A, M is the integer nearest to the ratio, A = 4 gives
\* n = 2 and M = 1, and M is non-decreasing in n
ConstructionFormulas ==
  /\ \A a \in ActionCounts :
       LET n == CeilLog2(a)
           M == MaxGroverLengthOf(n)
       IN  /\ 2 ^ n >= a
           /\ n > 0 => 2 ^ (n - 1) < a
           /\ 2 * M * Micro - Micro <= 2 * IterationRatioMicro(n)
           /\ 2 * IterationRatioMicro(n) < 2 * M * Micro + Micro
  /\ CeilLog2(4) = 2
  /\ MaxGroverLengthOf(CeilLog2(4)) = 1
  /\ \A n \in 0 .. 4 : MaxGroverLengthOf(n) <= MaxGroverLengthOf(n + 1)

\* C14 (amended): for every action count A, n = ceil(log2(A)) is the least width
\* with 2^n >= A and M is the integer nearest to
\* pi / (4 * arcsin(1 / sqrt(2^n))) - 0.5 as the doubles evaluate it; A = 4 gives
\* n = 2 and M = 1; M is non-decreasing in n; the agent's max_grover_length is
\* that M for its own width.
C14_NearestInteger ==
  /\ ConstructionFormulas
  /\ 2 * max_grover_length * Micro - Micro
       <= 2 * IterationRatioMicro(action_qregister_size)
  /\ 2 * IterationRatioMicro(action_qregister_size)
       < 2 * max_grover_length * Micro + Micro

\* C14 witness: an agent with three actions (width 2, M = 1) has appended the
\* one operator its M allows
C14_Witness ==
  /\ action_dimension = 3
  /\ action_qregister_size = 2
  /\ max_grover_length = 1
  /\ \E s \in States : Len(action_circuits[s]) = 1

\* the number of completed steps of the trajectories in a list of trajectories
RECURSIVE CompletedSteps(_)
CompletedSteps(trs) ==
  IF trs = << >> THEN 0 ELSE (Len(Head(trs)) - 1) + CompletedSteps(Tail(trs))

\* train() is inside an episode whose trajectory is not recorded yet
InEpisode ==
  pc \in {"take_action", "await_result", "env_step", "learn", "epoch_end", "error"}

\* the number of steps completed (line 198 reached) since train() began
StepsTaken ==
  CompletedSteps(trajectories_in_all_epochs)
    + (IF InEpisode THEN Len(trajectory) - 1 ELSE 0)

\* C11: every step issues exactly one execute() request, with shots = 1, on the
\* measured copy of the circuit of the current state, issued and answered
\* before the step's env.step call; no request is issued anywhere else and at
\* most one is in flight.
C11_OneRequestPerStep ==
  /\ [](/\ in_flight \in {0, 1}
        /\ in_flight = 1 <=> pc = "await_result"
        /\ pc = "await_result" => executions = StepsTaken + 1 /\ env_steps = StepsTaken
        /\ pc = "env_step" => executions = StepsTaken + 1 /\ env_steps = StepsTaken
        /\ pc = "learn" => executions = StepsTaken + 1 /\ env_steps = StepsTaken + 1
        /\ pc \in {"constructed", "epoch_start", "take_action", "epoch_end", "done"}
             => executions = StepsTaken /\ env_steps = StepsTaken)
  /\ [][executions' # executions =>
          /\ pc = "take_action"
          /\ executions' = executions + 1
          /\ request' = [circuit |-> action_circuits[state], measured |-> TRUE,
                         shots |-> 1]]_vars
  /\ [][env_steps' # env_steps =>
          /\ executions = env_steps + 1
          /\ in_flight = 0
          /\ env_steps' = env_steps + 1]_vars
  /\ [][request' # request => executions' # executions]_vars

\* C11 witness: the third step of a run has been completed, in a later episode,
\* with three single-shot requests and three env.step calls behind it
C11_Witness ==
  /\ AfterStep
  /\ epoch >= 1
  /\ StepsTaken = 3
  /\ executions = 3
  /\ env_steps = 3
  /\ request.shots = 1
  /\ in_flight = 0

\* C12: a measured outcome that is no action index (>= action_dimension) is
\* never handed to env.step.
C12_OutcomeChecked ==
  [][env_steps' # env_steps => action \in Actions]_vars

\* C13: when the backend fails during the measurement of a step, train() ends
\* there with that error: env.step is not called for the step, the tables, the
\* circuits, the results and the trajectory are as they were, the request is not
\* issued again, and nothing at all happens afterwards.
C13_BackendFailureAborts ==
  /\ [][(error' = "BackendError" /\ error # "BackendError") =>
          /\ pc = "await_result"
          /\ pc' = "error"
          /\ in_flight' = 0
          /\ UNCHANGED <<env_steps, executions, request, Q_values, grover_lengths,
                         max_grover_length_reached, action_circuits, state, epoch,
                         trajectory, results>>]_vars
  /\ [][error = "BackendError" => UNCHANGED vars]_vars
  /\ [](error = "BackendError" => pc = "error" /\ executions = env_steps + 1)

\* C13 witness: the backend failed in the second episode of a run in which
\* earlier steps had already learned a value, set a flag and extended a circuit
C13_Witness ==
  /\ error = "BackendError"
  /\ pc = "error"
  /\ epoch >= 1
  /\ StepsTaken >= 1
  /\ \E s \in States, a \in Actions : Q_values[s][a] # 0
  /\ \E s \in States, a \in Actions : max_grover_length_reached[s][a]
  /\ \E s \in States : action_circuits[s] # << >>

\* C16: a flag changes only in a step, only for the pair (state, action) of the
\* step, and it becomes true exactly when it was false and the raw length
\* clamped to [0, max_grover_length] equals max_grover_length.
C16_FlagSetRule ==
  [][\A s \in States, a \in Actions :
       max_grover_length_reached'[s][a] =
         IF pc = "learn" /\ s = state /\ a = action
         THEN \/ max_grover_length_reached[s][a]
              \/ Clamp(GetGroverLength(Q_values', reward', new_state,
                                       hyperparameters)) = max_grover_length
         ELSE max_grover_length_reached[s][a]]_vars

\* C17: after a step from state s with action a the stored length of (s, a) is
\* the number of operators the step appended to action_circuits[s], and no
\* other entry of the table has changed.
C17_LengthIsAppendedCount ==
  [][(pc = "learn" /\ action \in Actions) =>
       \A s \in States, a \in Actions :
         grover_lengths'[s][a] =
           IF s = state /\ a = action
           THEN Len(action_circuits'[s]) - Len(action_circuits[s])
           ELSE grover_lengths[s][a]]_vars

\* C18: the stages of a step run in the order measurement, env.step, shaping,
\* Q update, length, append, trajectory: the stored length of the step is
\* int(k * (shaped reward + max Q[new_state])) with Q read after the step's
\* update, the update changes the cell (state, action) only, and new_state is
\* appended to the trajectory.
C18_StageOrder ==
  /\ [][(pc = "learn" /\ action \in Actions) =>
          /\ grover_lengths'[state][action] =
               GetGroverLength(Q_values', reward', new_state, hyperparameters)
          /\ \A s \in States, a \in Actions :
               (s # state \/ a # action) => Q_values'[s][a] = Q_values[s][a]
          /\ trajectory' = Append(trajectory, new_state)]_vars
  /\ [][pc' # pc =>
          /\ pc = "take_action" => pc' = "await_result"
          /\ pc = "await_result" => (pc' = "env_step" \/ pc' = "error")
          /\ pc = "env_step" => pc' = "learn"
          /\ pc = "learn" =>
               (pc' = "take_action" \/ pc' = "epoch_end" \/ pc' = "error")]_vars
  /\ [][(Q_values' # Q_values \/ grover_lengths' # grover_lengths
           \/ action_circuits' # action_circuits \/ trajectory' # trajectory) =>
          (pc = "learn" \/ pc = "epoch_start" \/ pc = "constructed")]_vars

\* C18 witness: a no-op step has updated the cell that is also the maximum of
\* Q[new_state], by enough to change the length, and the stored length is the
\* one computed from the updated table
C18_Witness ==
  /\ AfterStep
  /\ new_state = step_entry.state
  /\ Q_values[new_state][action] = MaxQ(Q_values, new_state)
  /\ Q_values[new_state][action] >= 10 * QScale
  /\ grover_lengths[new_state][action] =
       GetGroverLength(Q_values, reward, new_state, hyperparameters)

\* xs is an initial part of ys
IsPrefix(xs, ys) == Len(xs) <= Len(ys) /\ SubSeq(ys, 1, Len(xs)) = xs

\* C19: a stored circuit only ever grows at its end; it grows only in the
\* append stage of a step taken from its own state, by copies of the operator
\* of the chosen action; the measurement leaves every stored circuit as it is;
\* the operator bank keeps the contents it was built with.
C19_StoreOnlyAppends ==
  /\ [][\A s \in States :
          /\ IsPrefix(action_circuits[s], action_circuits'[s])
          /\ action_circuits'[s] # action_circuits[s] =>
               /\ pc = "learn"
               /\ s = state
               /\ \A i \in (Len(action_circuits[s]) + 1) .. Len(action_circuits'[s]) :
                    action_circuits'[s][i] = grover_operators[action]]_vars
  /\ [][grover_operators' = grover_operators]_vars
  /\ [](grover_operators = [a \in Actions |-> a])

\* C19 witness: after two measurements the circuit of the state just left has
\* one operator more than when the step began and another circuit is still
\* the bare H layer
C19_Witness ==
  /\ AfterStep
  /\ executions >= 2
  /\ Len(action_circuits[step_entry.state]) = Len(step_entry.circuit) + 1
  /\ \E s \in States : s # step_entry.state /\ action_circuits[s] = << >>

\* C20: whenever the backend calls return, train() ends only by returning after
\* max_epochs episodes, and it takes at most max_epochs * max_steps steps.
C20_TrainRunsAllEpisodes ==
  error # "BackendError" =>
    /\ pc # "error"
    /\ epoch <= hyperparameters.max_epochs
    /\ pc = "done" => epoch = hyperparameters.max_epochs
    /\ StepsTaken <= hyperparameters.max_epochs * hyperparameters.max_steps

====
